---- MODULE Spec2Model ----
(***************************************************************************)
(* Model of sic (Simple Image Converter): the loader (sic_io/src/load.rs), *)
(* the operation pipeline (src/operations/apply_operations.rs), the        *)
(* conversion writer (sic_io/src/conversion.rs) and the stage chain of     *)
(* main (src/main.rs).                                                     *)
(*                                                                         *)
(* The codec layer (the image crate) is modelled by what the code relies   *)
(* on: the magic bytes an encoder emits and guess_format reads, the       *)
(* dimensions and color type an operation yields.                         *)
(***************************************************************************)
EXTENDS Integers, Sequences, FiniteSets, TLC

(***************************************************************************)
(* Bounds of the model.                                                    *)
(***************************************************************************)
MaxFrames == 3
MaxOps == 4
MaxMainOps == 2
MaxBody == 2

(***************************************************************************)
(* Byte strings.                                                           *)
(***************************************************************************)
StartsWith(buffer, prefix) ==
    /\ Len(buffer) >= Len(prefix)
    /\ SubSeq(buffer, 1, Len(prefix)) = prefix

GIF87a == <<71, 73, 70, 56, 55, 97>>
GIF89a == <<71, 73, 70, 56, 57, 97>>
BMPMagic == <<66, 77>>
ICOMagic == <<0, 0, 1, 0>>
JPEGMagic == <<255, 216, 255>>
PNGMagic == <<137, 80, 78, 71, 13, 10, 26, 10>>

\* The first bytes of the inputs the model reads: the two GIF signatures, a
\* near miss of them, a truncated one, two other containers and the empty input.
Headers ==
    { GIF87a, GIF89a, <<71, 73, 70, 56, 56, 97>>, <<71, 73, 70>>,
      BMPMagic, PNGMagic, <<>> }

ColorTypes == {"Luma8", "LumaA8", "Rgb8", "Rgba8"}

\* Width and height of the decoded test image.
InputDims == <<217, 447>>

NoImage == [w |-> 0, h |-> 0, color |-> "none", src |-> 0]
NoError == [kind |-> "none", idx |-> 0, msg |-> ""]
NoResult == [tag |-> "none", img |-> NoImage, err |-> NoError]

Ok(img) == [tag |-> "ok", img |-> img, err |-> NoError]
Err(kind, idx, msg) ==
    [tag |-> "err", img |-> NoImage, err |-> [kind |-> kind, idx |-> idx, msg |-> msg]]
Panic(msg) ==
    [tag |-> "panic", img |-> NoImage, err |-> [kind |-> "panic", idx |-> 0, msg |-> msg]]

(***************************************************************************)
(* Loader: sic_io/src/load.rs                                              *)
(***************************************************************************)
First == [tag |-> "First", n |-> 0]
Last == [tag |-> "Last", n |-> 0]
Nth(k) == [tag |-> "Nth", n |-> k]

\* Selectors Nth(k) reach one past the largest frame count and beyond.
MaxNth == MaxFrames + 2
FrameIndex == {First, Last} \cup { Nth(k) : k \in 0..MaxNth }

\* An input: its first bytes, whether the reader can be read to its end, whether
\* the content decodes, the frames of an animation in file order, whether the
\* animation loops, and the color type of a still image.
Inputs ==
    [ header : Headers,
      readable : BOOLEAN,
      valid : BOOLEAN,
      frames : 0..MaxFrames,
      loops : BOOLEAN,
      color : ColorTypes ]

starts_with_gif_magic_numberMutant(buffer) == StartsWith(buffer, <<71, 73, 70>>)

starts_with_gif_magic_number(buffer) ==
    StartsWith(buffer, GIF87a) \/ StartsWith(buffer, GIF89a)

\* image::guess_format: the container of a byte string, from its first bytes.
guess_format(bytes) ==
    IF StartsWith(bytes, PNGMagic) THEN "PNG"
    ELSE IF StartsWith(bytes, JPEGMagic) THEN "JPEG"
    ELSE IF StartsWith(bytes, GIF89a) \/ StartsWith(bytes, GIF87a) THEN "GIF"
    ELSE IF StartsWith(bytes, BMPMagic) THEN "BMP"
    ELSE IF StartsWith(bytes, ICOMagic) THEN "ICO"
    ELSE IF \E d \in 49..55 : StartsWith(bytes, <<80, d>>) THEN "PNM"
    ELSE "unknown"

\* The frame with zero-based index i of an animation, composited to RGBA.
Frame(i) ==
    [w |-> InputDims[1], h |-> InputDims[2], color |-> "Rgba8", src |-> i + 1]

\* image::load_from_memory: the generic decoder.
load_from_memory(bytes, in) ==
    IF guess_format(bytes) = "unknown" \/ ~in.valid
    THEN Err("Image", 0, "decode")
    ELSE Ok([w |-> InputDims[1], h |-> InputDims[2], color |-> in.color, src |-> 0])

\* image::gif::Decoder::into_frames().collect(): the frames in file order.
Frames(in) == [i \in 1..in.frames |-> Frame(i - 1)]

\* FrameIndex::Last on an empty vector: the early return of `match frame`.
LastOnEmpty(frame, amount_of_frames) ==
    frame.tag = "Last" /\ amount_of_frames = 0

\* `match frame` of load_gif: the zero-based index the selector resolves to.
SelectedMutant(frame, amount_of_frames) ==
    IF frame.tag = "First" THEN 1
    ELSE IF frame.tag = "Nth" THEN frame.n
    ELSE amount_of_frames - 1

Selected(frame, amount_of_frames) ==
    IF frame.tag = "First" THEN 0
    ELSE IF frame.tag = "Nth" THEN frame.n
    ELSE amount_of_frames - 1

\* `if selected >= amount_of_frames`: the frame does not exist.
FrameMissingMutant(sel, amount_of_frames) == sel > amount_of_frames

FrameMissing(sel, amount_of_frames) == sel >= amount_of_frames

NoSuchFrame(sel) ==
    Err("NoSuchFrame", sel, "Chosen frame index exceeds the maximum frame index")

\* `&vec[selected]`, cloned into an RGBA image: an index beyond the vector panics.
Pick(frames, sel) ==
    IF sel + 1 \in DOMAIN frames
    THEN Ok(frames[sel + 1])
    ELSE Panic("index out of bounds")

\* load_gif as a function of the input and the selector.
load_gif(in, frame) ==
    IF ~in.valid THEN Err("Image", 0, "decode")
    ELSE IF LastOnEmpty(frame, in.frames)
         THEN Err("NoSuchFrame", 0, "No frames found.")
         ELSE IF FrameMissing(Selected(frame, in.frames), in.frames)
              THEN NoSuchFrame(Selected(frame, in.frames))
              ELSE Pick(Frames(in), Selected(frame, in.frames))

\* load_image as a function of the input and the selector.
load_image(in, frame) ==
    IF ~in.readable THEN Err("Io", 0, "read")
    ELSE IF starts_with_gif_magic_number(in.header)
         THEN load_gif(in, frame)
         ELSE load_from_memory(in.header, in)

(***************************************************************************)
(* Operation pipeline: src/operations/apply_operations.rs                  *)
(***************************************************************************)
Blur(sigma) == [kind |-> "Blur", x |-> sigma, y |-> 0]
FlipHorizontal == [kind |-> "FlipHorizontal", x |-> 0, y |-> 0]
FlipVertical == [kind |-> "FlipVertical", x |-> 0, y |-> 0]
Resize(new_x, new_y) == [kind |-> "Resize", x |-> new_x, y |-> new_y]

\* The operations the model applies: the values of the tests of
\* apply_operations.rs, and a resize to a zero width.
Operations ==
    { Resize(100, 200), Resize(200, 200), Resize(400, 500), Resize(0, 100),
      Blur(1), Blur(25), FlipHorizontal, FlipVertical }

\* A kind of the extensible Operation type that Operation::apply_on has no arm
\* for: it reaches the wildcard arm.
Unimplemented == [kind |-> "Unimplemented", x |-> 0, y |-> 0]

\* The operations a list handed to apply_operations_on_image is made of.
AllOperations == Operations \cup {Unimplemented}

SeqsUpTo(S, n) == UNION { [1..k -> S] : k \in 0..n }

\* Operation::apply_on: blur and the flips keep the canvas, resize_exact sets it
\* to exactly new_x by new_y; every arm keeps the color type.
apply_onMutant(op, img) ==
    IF op.kind = "Blur" THEN Ok(img)
    ELSE IF op.kind = "FlipHorizontal" THEN Ok(img)
    ELSE IF op.kind = "FlipVertical" THEN Ok(img)
    ELSE IF op.kind = "Resize" THEN Ok([img EXCEPT !.w = op.y, !.h = op.x])
    ELSE Panic("not yet implemented")

\* The wildcard arm skipping the operation instead of failing.
apply_onSkip(op, img) ==
    IF op.kind = "Resize" THEN Ok([img EXCEPT !.w = op.x, !.h = op.y])
    ELSE Ok(img)

apply_on(op, img) ==
    IF op.kind = "Blur" THEN Ok(img)
    ELSE IF op.kind = "FlipHorizontal" THEN Ok(img)
    ELSE IF op.kind = "FlipVertical" THEN Ok(img)
    ELSE IF op.kind = "Resize" THEN Ok([img EXCEPT !.w = op.x, !.h = op.y])
    ELSE Panic("not yet implemented")

(***************************************************************************)
(* Conversion writer: sic_io/src/conversion.rs                             *)
(***************************************************************************)
Format(family, subtype, encoding) ==
    [family |-> family, subtype |-> subtype, encoding |-> encoding]

\* image::ImageOutputFormat, as far as sic supports it.
OutputFormats ==
    { Format(f, "none", "none") : f \in {"BMP", "GIF", "ICO", "JPEG", "PNG"} }
    \cup { Format("PNM", st, e) : st \in {"Bitmap", "Graymap", "Pixmap"},
                                  e \in {"Ascii", "Binary"} }
    \cup { Format("PNM", "ArbitraryMap", "none") }

ExportMethods == {"File", "StdoutBytes"}

None == [some |-> FALSE, img |-> NoImage]
Some(img) == [some |-> TRUE, img |-> img]

\* DynamicImage::grayscale: a new single-channel image of the same canvas.
grayscale(img) == [img EXCEPT !.color = "Luma8"]

\* DynamicImage::to_rgb wrapped in ImageRgb8: a new image without alpha.
to_rgb(img) == [img EXCEPT !.color = "Rgb8"]

\* The table without its outer match: adjusts whatever the setting is.
pre_process_color_typeAlways(img, output_format, color_type_adjustment) ==
    IF output_format.family = "PNM" /\ output_format.subtype = "Bitmap"
    THEN Some(grayscale(img))
    ELSE IF output_format.family = "PNM" /\ output_format.subtype = "Graymap"
    THEN Some(grayscale(img))
    ELSE IF output_format.family = "PNM" /\ output_format.subtype = "Pixmap"
    THEN Some(to_rgb(img))
    ELSE None

\* The table with the graymap arm missing.
pre_process_color_typeNoGraymap(img, output_format, color_type_adjustment) ==
    IF color_type_adjustment = "Enabled"
    THEN IF output_format.family = "PNM" /\ output_format.subtype = "Bitmap"
         THEN Some(grayscale(img))
         ELSE IF output_format.family = "PNM" /\ output_format.subtype = "Pixmap"
         THEN Some(to_rgb(img))
         ELSE None
    ELSE None

pre_process_color_type(img, output_format, color_type_adjustment) ==
    IF color_type_adjustment = "Enabled"
    THEN IF output_format.family = "PNM" /\ output_format.subtype = "Bitmap"
         THEN Some(grayscale(img))
         ELSE IF output_format.family = "PNM" /\ output_format.subtype = "Graymap"
         THEN Some(grayscale(img))
         ELSE IF output_format.family = "PNM" /\ output_format.subtype = "Pixmap"
         THEN Some(to_rgb(img))
         ELSE None
    ELSE None

\* `match color_processing` of write: the buffer handed to the encoder.
ExportBufferOriginal(color_processing, img) == img

ExportBuffer(color_processing, img) ==
    IF color_processing.some THEN color_processing.img ELSE img

\* The signature an encoder of the image crate writes first.
Magic(format) ==
    IF format.family = "BMP" THEN BMPMagic
    ELSE IF format.family = "GIF" THEN GIF89a
    ELSE IF format.family = "ICO" THEN ICOMagic
    ELSE IF format.family = "JPEG" THEN JPEGMagic
    ELSE IF format.family = "PNG" THEN PNGMagic
    ELSE IF format.subtype = "ArbitraryMap" THEN <<80, 55>>
    ELSE IF format.subtype = "Bitmap"
         THEN (IF format.encoding = "Ascii" THEN <<80, 49>> ELSE <<80, 52>>)
    ELSE IF format.subtype = "Graymap"
         THEN (IF format.encoding = "Ascii" THEN <<80, 50>> ELSE <<80, 53>>)
    ELSE (IF format.encoding = "Ascii" THEN <<80, 51>> ELSE <<80, 54>>)

Channels(color) ==
    IF color = "Luma8" THEN 1
    ELSE IF color = "LumaA8" THEN 2
    ELSE IF color = "Rgb8" THEN 3
    ELSE 4

\* DynamicImage::write_to: the complete byte sequence of an encoding; the
\* samples after the signature are modelled by the buffer's channel count.
Encoded(img, format) ==
    Magic(format) \o [i \in 1..MaxBody |-> Channels(img.color)]

\* The PNM encoder refuses a color type its subtype cannot represent.
EncoderRejects(img, format) ==
    /\ format.family = "PNM"
    /\ \/ format.subtype \in {"Bitmap", "Graymap"} /\ img.color # "Luma8"
       \/ format.subtype = "Pixmap" /\ img.color # "Rgb8"

(***************************************************************************)
(* State.                                                                  *)
(***************************************************************************)
VARIABLES
    pc,               \* the statement control is at
    stages,           \* the stages of the conversion started so far, in order
    mainRes,          \* what main returns
    input,            \* the reader handed to load_image
    selected_frame,   \* config.selected_frame
    buffer,           \* load: the bytes read from the reader
    vec,              \* load_gif: the decoded frames
    selected,         \* load_gif: the resolved frame index
    loadRes,          \* what load_image returns
    rc_img,           \* apply_operations_on_image: the buffer behind the Rc
    shared,           \* whether another Rc to the same buffer is alive
    operations,       \* the operation list
    idx,              \* the position of operations.iter()
    opsRes,           \* what apply_operations_on_image returns
    trace,            \* the calls of apply_on so far: operation, argument, result
    image,            \* ConversionWriter.image
    export,           \* the export method
    output_format,    \* the requested output format
    adjustment,       \* AutomaticColorTypeAdjustment
    color_processing, \* write: the Option pre_process_color_type returned
    write_buffer,     \* export_to_stdout: the in-memory Vec<u8>
    stdout,           \* the bytes that reached the output stream
    file,             \* the file at the output path
    writeRes          \* what ConversionWriter::write returns

mainVars == <<pc, stages, mainRes>>
loadVars == <<input, selected_frame, buffer, vec, selected, loadRes>>
opsVars == <<rc_img, shared, operations, idx, opsRes, trace>>
writeVars ==
    <<image, export, output_format, adjustment, color_processing, write_buffer,
      stdout, file, writeRes>>
vars == <<mainVars, loadVars, opsVars, writeVars>>

NoInput ==
    [header |-> <<>>, readable |-> FALSE, valid |-> FALSE, frames |-> 0,
     loops |-> FALSE, color |-> "Luma8"]
NoFormat == Format("none", "none", "none")
NoFile == [exists |-> FALSE, content |-> <<>>]

\* The file at the output path before the conversion: absent, or left by an
\* earlier run.
FilesBefore == { NoFile, [exists |-> TRUE, content |-> <<0>>] }

LoadIdle ==
    /\ input = NoInput
    /\ selected_frame = First
    /\ buffer = <<>>
    /\ vec = <<>>
    /\ selected = 0
    /\ loadRes = NoResult

OpsIdle ==
    /\ rc_img = NoImage
    /\ shared = FALSE
    /\ operations = <<>>
    /\ idx = 1
    /\ opsRes = NoResult
    /\ trace = <<>>

WriteIdle ==
    /\ image = NoImage
    /\ export = "none"
    /\ output_format = NoFormat
    /\ adjustment = "none"
    /\ color_processing = None
    /\ write_buffer = <<>>
    /\ stdout = <<>>
    /\ file = NoFile
    /\ writeRes = NoResult

(***************************************************************************)
(* load_image and load_gif, statement by statement.                        *)
(***************************************************************************)
LoadReturn(res) ==
    /\ loadRes' = res
    /\ pc' = IF res.tag = "panic" THEN "abort" ELSE "load_done"

\* load(reader): read_to_end into a fresh Vec.
LoadRead ==
    /\ pc = "load"
    /\ IF input.readable
       THEN /\ buffer' = input.header
            /\ pc' = "sniff"
            /\ UNCHANGED loadRes
       ELSE /\ LoadReturn(Err("Io", 0, "read"))
            /\ UNCHANGED buffer
    /\ UNCHANGED <<stages, mainRes, input, selected_frame, vec, selected>>
    /\ UNCHANGED <<opsVars, writeVars>>

\* `if starts_with_gif_magic_number(&buffer)`.
LoadSniff ==
    /\ pc = "sniff"
    /\ pc' = IF starts_with_gif_magic_number(buffer) THEN "gif_decode" ELSE "generic"
    /\ UNCHANGED <<stages, mainRes, loadVars, opsVars, writeVars>>

\* image::load_from_memory(&buffer).map_err(From::from).
LoadGeneric ==
    /\ pc = "generic"
    /\ LoadReturn(load_from_memory(buffer, input))
    /\ UNCHANGED <<stages, mainRes, input, selected_frame, buffer, vec, selected>>
    /\ UNCHANGED <<opsVars, writeVars>>

\* Decoder::new, into_frames and collect, each with `?`.
GifDecode ==
    /\ pc = "gif_decode"
    /\ IF input.valid
       THEN /\ vec' = Frames(input)
            /\ pc' = "gif_match"
            /\ UNCHANGED loadRes
       ELSE /\ LoadReturn(Err("Image", 0, "decode"))
            /\ UNCHANGED vec
    /\ UNCHANGED <<stages, mainRes, input, selected_frame, buffer, selected>>
    /\ UNCHANGED <<opsVars, writeVars>>

\* `let selected = match frame { ... }`.
GifMatch ==
    /\ pc = "gif_match"
    /\ IF LastOnEmpty(selected_frame, Len(vec))
       THEN /\ LoadReturn(Err("NoSuchFrame", 0, "No frames found."))
            /\ UNCHANGED selected
       ELSE /\ selected' = Selected(selected_frame, Len(vec))
            /\ pc' = "gif_check"
            /\ UNCHANGED loadRes
    /\ UNCHANGED <<stages, mainRes, input, selected_frame, buffer, vec>>
    /\ UNCHANGED <<opsVars, writeVars>>

\* `if selected >= amount_of_frames { return Err(NoSuchFrame) }`.
GifCheck ==
    /\ pc = "gif_check"
    /\ IF FrameMissing(selected, Len(vec))
       THEN LoadReturn(NoSuchFrame(selected))
       ELSE /\ pc' = "gif_pick"
            /\ UNCHANGED loadRes
    /\ UNCHANGED <<stages, mainRes, input, selected_frame, buffer, vec, selected>>
    /\ UNCHANGED <<opsVars, writeVars>>

\* `let pick = &vec[selected]` and the clone into an RGBA image.
GifPick ==
    /\ pc = "gif_pick"
    /\ LoadReturn(Pick(vec, selected))
    /\ UNCHANGED <<stages, mainRes, input, selected_frame, buffer, vec, selected>>
    /\ UNCHANGED <<opsVars, writeVars>>

NextLoad ==
    \/ LoadRead
    \/ LoadSniff
    \/ LoadGeneric
    \/ GifDecode
    \/ GifMatch
    \/ GifCheck
    \/ GifPick

InitLoad ==
    /\ pc = "load"
    /\ stages = <<"load">>
    /\ mainRes = NoResult
    /\ input \in Inputs
    /\ selected_frame \in FrameIndex
    /\ buffer = <<>>
    /\ vec = <<>>
    /\ selected = 0
    /\ loadRes = NoResult
    /\ OpsIdle
    /\ WriteIdle

SpecLoad == InitLoad /\ [][NextLoad]_vars

(***************************************************************************)
(* apply_operations_on_image: one action per iteration of the loop.        *)
(***************************************************************************)
\* The decoded test image of apply_operations.rs.
TestImage == [w |-> InputDims[1], h |-> InputDims[2], color |-> "Rgb8", src |-> 0]

\* `for op in operations.iter()`: the operation of the i-th iteration.
NextOpReversed(ops, i) == ops[Len(ops) + 1 - i]

NextOp(ops, i) == ops[i]

\* Rc::get_mut: Some exactly when no other Rc to the buffer is alive.
get_mutAlways(sh) == TRUE

get_mut(sh) == ~sh

\* `*Rc::get_mut(&mut rc_img).unwrap() = op.apply_on(...).unwrap()`: the value
\* is evaluated first; get_mut is None while another Rc is alive, and unwrap
\* panics on None and on Err.
ApplyStep ==
    /\ pc = "ops"
    /\ idx <= Len(operations)
    /\ LET op == NextOp(operations, idx)
           res == apply_on(op, rc_img)
       IN
       IF ~get_mut(shared)
       THEN /\ opsRes' = Panic("called Option::unwrap() on a None value")
            /\ pc' = "abort"
            /\ UNCHANGED <<rc_img, idx, trace>>
       ELSE IF res.tag # "ok"
            THEN /\ opsRes' = Panic(res.err.msg)
                 /\ pc' = "abort"
                 /\ trace' = Append(trace, [op |-> op, arg |-> rc_img, res |-> res])
                 /\ UNCHANGED <<rc_img, idx>>
            ELSE /\ rc_img' = res.img
                 /\ idx' = idx + 1
                 /\ trace' = Append(trace, [op |-> op, arg |-> rc_img, res |-> res])
                 /\ UNCHANGED <<pc, opsRes>>
    /\ UNCHANGED <<stages, mainRes, shared, operations>>
    /\ UNCHANGED <<loadVars, writeVars>>

\* `Ok(rc_img)` after the loop.
OpsReturn ==
    /\ pc = "ops"
    /\ idx > Len(operations)
    /\ opsRes' = Ok(rc_img)
    /\ pc' = "ops_done"
    /\ UNCHANGED <<stages, mainRes, rc_img, shared, operations, idx, trace>>
    /\ UNCHANGED <<loadVars, writeVars>>

NextOps ==
    \/ ApplyStep
    \/ OpsReturn

InitOps ==
    /\ pc = "ops"
    /\ stages = <<"ops">>
    /\ mainRes = NoResult
    /\ LoadIdle
    /\ rc_img = TestImage
    /\ shared \in BOOLEAN
    /\ operations \in SeqsUpTo(AllOperations, MaxOps)
    /\ idx = 1
    /\ opsRes = NoResult
    /\ trace = <<>>
    /\ WriteIdle

SpecOps == InitOps /\ [][NextOps]_vars

(***************************************************************************)
(* ConversionWriter::write, save_to_file and export_to_stdout.             *)
(***************************************************************************)
WriteReturn(res) ==
    /\ writeRes' = res
    /\ pc' = "write_done"

\* pre_process_color_type, `match color_processing` and `match export`.
WritePreProcess ==
    /\ pc = "write"
    /\ color_processing' = pre_process_color_type(image, output_format, adjustment)
    /\ pc' = IF export = "File" THEN "create" ELSE "encode_mem"
    /\ UNCHANGED <<stages, mainRes, image, export, output_format, adjustment>>
    /\ UNCHANGED <<write_buffer, stdout, file, writeRes, loadVars, opsVars>>

\* std::fs::File::create on success: the file exists and is empty, whatever was
\* at the path.
CreatedAppending(f) == [exists |-> TRUE, content |-> f.content]

Created(f) == [exists |-> TRUE, content |-> <<>>]

\* save_to_file: std::fs::File::create(path) with `?`.
FileCreate ==
    /\ pc = "create"
    /\ \/ /\ file' = Created(file)
          /\ pc' = "encode_file"
          /\ UNCHANGED writeRes
       \/ /\ WriteReturn(Err("Io", 0, "create"))
          /\ UNCHANGED file
    /\ UNCHANGED <<stages, mainRes, image, export, output_format, adjustment>>
    /\ UNCHANGED <<color_processing, write_buffer, stdout, loadVars, opsVars>>

\* save_to_file: buffer.write_to(&mut out, format), byte by byte into the file.
EncodeToFile ==
    /\ pc = "encode_file"
    /\ LET export_buffer == ExportBuffer(color_processing, image)
           bytes == Encoded(export_buffer, output_format)
           n == Len(file.content)
       IN IF EncoderRejects(export_buffer, output_format)
          THEN /\ WriteReturn(Err("Encode", 0, "color type"))
               /\ UNCHANGED file
          ELSE IF n < Len(bytes)
               THEN /\ file' = [file EXCEPT !.content = Append(@, bytes[n + 1])]
                    /\ UNCHANGED <<pc, writeRes>>
               ELSE /\ WriteReturn(Ok(NoImage))
                    /\ UNCHANGED file
    /\ UNCHANGED <<stages, mainRes, image, export, output_format, adjustment>>
    /\ UNCHANGED <<color_processing, write_buffer, stdout, loadVars, opsVars>>

\* save_to_file: the encoder or the file system fails during write_to.
EncodeToFileFail ==
    /\ pc = "encode_file"
    /\ WriteReturn(Err("Encode", 0, "write_to"))
    /\ UNCHANGED <<stages, mainRes, image, export, output_format, adjustment>>
    /\ UNCHANGED <<color_processing, write_buffer, stdout, file, loadVars, opsVars>>

\* export_to_stdout encodes into `write_buffer`, a Vec, not into the stream:
\* the Vec and the stream after the encoder wrote one byte.
MemSinkMutant(vector, stream, byte) == <<Append(vector, byte), Append(stream, byte)>>

MemSink(vector, stream, byte) == <<Append(vector, byte), stream>>

\* export_to_stdout: buffer.write_to(&mut write_buffer, format) with `?`.
EncodeToMem ==
    /\ pc = "encode_mem"
    /\ LET export_buffer == ExportBuffer(color_processing, image)
           bytes == Encoded(export_buffer, output_format)
           n == Len(write_buffer)
       IN IF EncoderRejects(export_buffer, output_format)
          THEN /\ WriteReturn(Err("Encode", 0, "color type"))
               /\ UNCHANGED <<write_buffer, stdout>>
          ELSE IF n < Len(bytes)
               THEN /\ write_buffer' = MemSink(write_buffer, stdout, bytes[n + 1])[1]
                    /\ stdout' = MemSink(write_buffer, stdout, bytes[n + 1])[2]
                    /\ UNCHANGED <<pc, writeRes>>
               ELSE /\ pc' = "stdout_write"
                    /\ UNCHANGED <<write_buffer, stdout, writeRes>>
    /\ UNCHANGED <<stages, mainRes, image, export, output_format, adjustment>>
    /\ UNCHANGED <<color_processing, file, loadVars, opsVars>>

\* export_to_stdout: the encoder fails during write_to.
EncodeToMemFail ==
    /\ pc = "encode_mem"
    /\ WriteReturn(Err("Encode", 0, "write_to"))
    /\ UNCHANGED <<stages, mainRes, image, export, output_format, adjustment>>
    /\ UNCHANGED <<color_processing, write_buffer, stdout, file, loadVars, opsVars>>

\* Write::write on the stream: Ok(n) for some n up to the length of the slice,
\* n bytes of which were taken; or an error.
StreamWrite(bytes) ==
    { [ok |-> TRUE, taken |-> n] : n \in 0..Len(bytes) }
    \cup { [ok |-> FALSE, taken |-> 0] }

\* export_to_stdout: io::stdout().write(&write_buffer).map(|_| ()).
StdoutWrite ==
    /\ pc = "stdout_write"
    /\ \E r \in StreamWrite(write_buffer) :
          /\ stdout' = stdout \o SubSeq(write_buffer, 1, r.taken)
          /\ WriteReturn(IF r.ok THEN Ok(NoImage) ELSE Err("Io", 0, "stdout"))
    /\ UNCHANGED <<stages, mainRes, image, export, output_format, adjustment>>
    /\ UNCHANGED <<color_processing, write_buffer, file, loadVars, opsVars>>

NextWrite ==
    \/ WritePreProcess
    \/ FileCreate
    \/ EncodeToFile
    \/ EncodeToFileFail
    \/ EncodeToMem
    \/ EncodeToMemFail
    \/ StdoutWrite

\* The buffers the writer is constructed with: every color type, on the canvas
\* of the test image.
WriteImages == { [TestImage EXCEPT !.color = c] : c \in ColorTypes }

Adjustments == {"Enabled", "Disabled"}

InitWrite ==
    /\ pc = "write"
    /\ stages = <<"write">>
    /\ mainRes = NoResult
    /\ LoadIdle
    /\ OpsIdle
    /\ image \in WriteImages
    /\ export \in ExportMethods
    /\ output_format \in OutputFormats
    /\ adjustment \in Adjustments
    /\ color_processing = None
    /\ write_buffer = <<>>
    /\ stdout = <<>>
    /\ file \in FilesBefore
    /\ writeRes = NoResult

SpecWrite == InitWrite /\ [][NextWrite]_vars

(***************************************************************************)
(* main: load, apply the operations, write; each stage's result is passed  *)
(* on with `?`, and the locals of a finished stage are dropped.            *)
(***************************************************************************)
\* `image::open(path)...?`: an error returns from main, a buffer goes on to the
\* operations stage.
MainAfterLoad ==
    /\ pc = "load_done"
    /\ IF loadRes.tag = "ok"
       THEN /\ \E ops \in SeqsUpTo(AllOperations, MaxMainOps), sh \in BOOLEAN :
                  /\ rc_img' = loadRes.img
                  /\ operations' = ops
                  /\ shared' = sh
            /\ idx' = 1
            /\ opsRes' = NoResult
            /\ trace' = <<>>
            /\ stages' = Append(stages, "ops")
            /\ pc' = "ops"
            /\ input' = NoInput
            /\ selected_frame' = First
            /\ buffer' = <<>>
            /\ vec' = <<>>
            /\ selected' = 0
            /\ loadRes' = NoResult
            /\ UNCHANGED mainRes
       ELSE /\ mainRes' = loadRes
            /\ pc' = "exit"
            /\ UNCHANGED <<stages, loadVars, opsVars>>
    /\ UNCHANGED writeVars

\* `image_operations_processor.process_mut(&options)?`, then the conversion.
MainAfterOps ==
    /\ pc = "ops_done"
    /\ IF opsRes.tag = "ok"
       THEN /\ image' = opsRes.img
            /\ export' \in ExportMethods
            /\ output_format' \in OutputFormats
            /\ adjustment' \in Adjustments
            /\ file' \in FilesBefore
            /\ stages' = Append(stages, "write")
            /\ pc' = "write"
            /\ rc_img' = NoImage
            /\ shared' = FALSE
            /\ operations' = <<>>
            /\ idx' = 1
            /\ opsRes' = NoResult
            /\ trace' = <<>>
            /\ UNCHANGED <<mainRes, color_processing, write_buffer, stdout, writeRes>>
       ELSE /\ mainRes' = opsRes
            /\ pc' = "exit"
            /\ UNCHANGED <<stages, opsVars, writeVars>>
    /\ UNCHANGED loadVars

\* The value of the final `match`: what the writer returned.
MainAfterWrite ==
    /\ pc = "write_done"
    /\ mainRes' = writeRes
    /\ pc' = "exit"
    /\ UNCHANGED <<stages, loadVars, opsVars, writeVars>>

Init == InitLoad

Next ==
    \/ NextLoad
    \/ MainAfterLoad
    \/ NextOps
    \/ MainAfterOps
    \/ NextWrite
    \/ MainAfterWrite

Spec == Init /\ [][Next]_vars

(***************************************************************************)
(* Properties of the loader, under SpecLoad.                               *)
(***************************************************************************)
\* The input begins with GIF87a or GIF89a: the animated container.
Animated == StartsWith(input.header, GIF87a) \/ StartsWith(input.header, GIF89a)

\* The animated input was read and decoded to input.frames frames.
DecodedAnimation == Animated /\ input.readable /\ input.valid

\* C1: on an animated input that decodes to n frames, Nth(k) with k >= n
\* returns NoSuchFrame carrying k and never an image, looping or not, and the
\* access vec[selected] is only reached with selected < n.
C1_NthBeyondLength ==
    /\ ( /\ pc \in {"load_done", "abort"}
         /\ DecodedAnimation
         /\ selected_frame.tag = "Nth"
         /\ selected_frame.n >= input.frames )
       => ( /\ pc = "load_done"
            /\ loadRes.tag = "err"
            /\ loadRes.err.kind = "NoSuchFrame"
            /\ loadRes.err.idx = selected_frame.n )
    /\ pc = "gif_pick" => selected < Len(vec)

\* A looping animation of at least one frame, Nth(k) with k equal to its length.
C1_Witness ==
    /\ pc = "load_done"
    /\ DecodedAnimation
    /\ input.loops
    /\ input.frames >= 1
    /\ selected_frame = Nth(input.frames)
    /\ loadRes.err.kind = "NoSuchFrame"

\* C2: on an animated input with n frames, First gives the outcome of Nth(0);
\* for n >= 1 Last gives the frame of Nth(n-1); Last on n = 0 fails.
C2_FirstLastAsNth ==
    (pc \in {"load_done", "abort"} /\ Animated /\ input.readable)
    => /\ selected_frame = First => loadRes = load_image(input, Nth(0))
       /\ (selected_frame = Last /\ input.valid /\ input.frames >= 1)
          => ( /\ loadRes.tag = "ok"
               /\ loadRes = load_image(input, Nth(input.frames - 1))
               /\ loadRes.img.src = input.frames )
       /\ (selected_frame = Last /\ input.valid /\ input.frames = 0)
          => ( /\ loadRes.tag = "err"
               /\ loadRes.err.kind = "NoSuchFrame" )
       /\ (selected_frame = Nth(0) /\ input.valid /\ input.frames >= 1)
          => ( /\ loadRes.tag = "ok"
               /\ loadRes.img.src = 1 )

\* Last resolved on an animation of several frames.
C2_Witness ==
    /\ pc = "load_done"
    /\ DecodedAnimation
    /\ input.frames >= 2
    /\ selected_frame = Last
    /\ loadRes.tag = "ok"
    /\ loadRes.img.src = input.frames

\* C3: an input that does not begin with the GIF magic is decoded by the
\* generic decoder, whatever the selector; a valid one always loads.
C3_SelectorIgnored ==
    (pc \in {"load_done", "abort"} /\ ~Animated /\ input.readable)
    => /\ pc = "load_done"
       /\ loadRes = load_from_memory(input.header, input)
       /\ vec = <<>>
       /\ selected = 0
       /\ (input.valid /\ guess_format(input.header) # "unknown")
          => loadRes.tag = "ok"

\* A valid still image loaded under a selector far beyond any frame count.
C3_Witness ==
    /\ pc = "load_done"
    /\ ~Animated
    /\ input.header = PNGMagic
    /\ input.valid
    /\ selected_frame = Nth(MaxNth)
    /\ loadRes.tag = "ok"

(***************************************************************************)
(* Properties of the operation pipeline, under SpecOps.                    *)
(***************************************************************************)
RECURSIVE LastResize(_)
\* The position of the last Resize of a list, 0 if it has none.
LastResize(ops) ==
    IF ops = <<>> THEN 0
    ELSE IF ops[Len(ops)].kind = "Resize" THEN Len(ops)
    ELSE LastResize(SubSeq(ops, 1, Len(ops) - 1))

\* C4: on a uniquely owned buffer the call succeeds, and the final canvas is
\* exactly that of the last Resize of the list, or the input's without one.
C4_FinalCanvas ==
    /\ (~shared /\ operations \in Seq(Operations)) => pc # "abort"
    /\ (pc = "ops_done" /\ ~shared)
       => /\ opsRes.tag = "ok"
          /\ LET r == LastResize(operations) IN
             IF r = 0
             THEN /\ opsRes.img.w = TestImage.w
                  /\ opsRes.img.h = TestImage.h
             ELSE /\ opsRes.img.w = operations[r].x
                  /\ opsRes.img.h = operations[r].y

\* The list of test_multi on the 217 by 447 image ends at 200 by 200.
C4_Witness ==
    /\ pc = "ops_done"
    /\ ~shared
    /\ operations = <<Resize(100, 200), Blur(1), FlipHorizontal, Resize(200, 200)>>
    /\ opsRes.tag = "ok"
    /\ opsRes.img.w = 200
    /\ opsRes.img.h = 200

(***************************************************************************)
(* Properties of the writer, under SpecWrite.                              *)
(***************************************************************************)
\* The bytes the export produced: the file's content, or what reached stdout.
Produced == IF export = "File" THEN file.content ELSE stdout

\* C5: a successful write with adjustment enabled produces bytes whose
\* detected format is the requested output format family.
C5_HeaderMatch ==
    (pc = "write_done" /\ writeRes.tag = "ok" /\ adjustment = "Enabled")
    => guess_format(Produced) = output_format.family

\* The part of C5 the short write of C9 leaves intact: a successful File export
\* produces a file detected as the requested format.
C5_FileHeaderMatch ==
    (pc = "write_done" /\ writeRes.tag = "ok" /\ export = "File")
    => /\ file.exists
       /\ guess_format(file.content) = output_format.family

\* The buffer handed to the encoder.
export_buffer == ExportBuffer(color_processing, image)

\* C6: with adjustment enabled the encoder's buffer is decided by the target
\* alone: grayscale for PNM bitmap and graymap, RGB for PNM pixmap, and the
\* original with no replacement for every other target.
C6_PolicyTable ==
    (pc \notin {"write"} /\ adjustment = "Enabled")
    => IF output_format.family = "PNM" /\ output_format.subtype \in {"Bitmap", "Graymap"}
       THEN /\ color_processing.some
            /\ export_buffer = [image EXCEPT !.color = "Luma8"]
       ELSE IF output_format.family = "PNM" /\ output_format.subtype = "Pixmap"
       THEN /\ color_processing.some
            /\ export_buffer = [image EXCEPT !.color = "Rgb8"]
       ELSE /\ ~color_processing.some
            /\ export_buffer = image

\* An RGBA input on its way to a bilevel target is handed over as grayscale.
C6_Witness ==
    /\ pc = "write_done"
    /\ adjustment = "Enabled"
    /\ output_format.subtype = "Bitmap"
    /\ image.color = "Rgba8"
    /\ export_buffer.color = "Luma8"
    /\ writeRes.tag = "ok"

\* C7: with adjustment disabled there is no replacement, the encoder gets the
\* original, and an encoder rejection is returned as the error of the write.
C7_Disabled ==
    (pc \notin {"write"} /\ adjustment = "Disabled")
    => /\ ~color_processing.some
       /\ export_buffer = image
       /\ (pc = "write_done" /\ writeRes.err.kind # "Io"
             /\ output_format.family = "PNM"
             /\ \/ output_format.subtype \in {"Bitmap", "Graymap"} /\ image.color # "Luma8"
                \/ output_format.subtype = "Pixmap" /\ image.color # "Rgb8")
          => ( /\ writeRes.tag = "err"
               /\ writeRes.err.kind = "Encode"
               /\ write_buffer = <<>>
               /\ Produced = <<>> )

\* An RGBA buffer refused by the bilevel encoder, adjustment disabled.
C7_Witness ==
    /\ pc = "write_done"
    /\ adjustment = "Disabled"
    /\ output_format.subtype = "Bitmap"
    /\ image.color = "Rgba8"
    /\ export_buffer = image
    /\ writeRes.tag = "err"
    /\ writeRes.err.kind = "Encode"

\* C8: in a Stdout export no byte reaches the stream before the encoding into
\* the in-memory buffer is complete; a failed encoding leaves the stream empty.
C8_NothingBeforeEncoded ==
    export = "StdoutBytes"
    => /\ pc \in {"write", "encode_mem"} => stdout = <<>>
       /\ stdout # <<>> => write_buffer = Encoded(export_buffer, output_format)
       /\ (pc = "write_done" /\ writeRes.err.kind = "Encode")
          => ( /\ writeRes.tag = "err"
               /\ stdout = <<>> )

\* An encoding that failed after part of it was in the buffer.
C8_Witness ==
    /\ export = "StdoutBytes"
    /\ pc = "write_done"
    /\ writeRes.err.kind = "Encode"
    /\ write_buffer # <<>>
    /\ stdout = <<>>

\* C9: whenever export_to_stdout returns Ok, the bytes emitted are the
\* complete encoded sequence, never a proper prefix of it.
C9_AllOrError ==
    (export = "StdoutBytes" /\ pc = "write_done" /\ writeRes.tag = "ok")
    => stdout = Encoded(export_buffer, output_format)

(***************************************************************************)
(* Properties of the stage chain, under Spec.                              *)
(***************************************************************************)
\* C10: the first stage that fails ends the conversion, no later stage runs,
\* no stage runs twice, and the failure is what the caller is returned.
C10_FirstFailureReturned ==
    /\ pc # "abort"
    /\ \A i, j \in DOMAIN stages : stages[i] = stages[j] => i = j
    /\ loadRes.tag = "err" => stages = <<"load">>
    /\ opsRes.tag \in {"err", "panic"} => stages = <<"load", "ops">>
    /\ pc = "exit"
       => /\ mainRes.tag \in {"ok", "err"}
          /\ mainRes.tag = "ok" => stages = <<"load", "ops", "write">>
          /\ loadRes.tag = "err" => mainRes = loadRes
          /\ writeRes.tag = "err" => mainRes = writeRes

\* C11: an operation kind apply_on does not implement aborts the conversion at
\* that operation: it is not skipped, nothing after it is applied, and the
\* writer is never invoked, so no file and no output bytes are produced.
C11_UnimplementedAborts ==
    /\ pc = "ops_done" => \A i \in DOMAIN operations : operations[i] # Unimplemented
    /\ \A i \in DOMAIN trace :
          trace[i].op = Unimplemented
          => ( /\ i = Len(trace)
               /\ idx = i
               /\ pc = "abort"
               /\ opsRes.tag = "panic"
               /\ rc_img = trace[i].arg )
    /\ (\E i \in DOMAIN operations : operations[i] = Unimplemented)
       => ( /\ pc \in {"ops", "abort"}
            /\ stages = <<"load", "ops">>
            /\ mainRes = NoResult
            /\ image = NoImage
            /\ writeRes = NoResult
            /\ write_buffer = <<>>
            /\ stdout = <<>>
            /\ file = NoFile )

\* An unimplemented operation followed by a resize, on a uniquely owned buffer:
\* the conversion aborted with the canvas as loaded.
C11_Witness ==
    /\ pc = "abort"
    /\ ~shared
    /\ operations = <<Unimplemented, Resize(200, 200)>>
    /\ idx = 1
    /\ rc_img.w = InputDims[1]
    /\ opsRes.tag = "panic"
    /\ stages = <<"load", "ops">>

(***************************************************************************)
(* Further properties of the operation pipeline, under SpecOps.            *)
(***************************************************************************)
\* C12: the operations are applied in list order, each once; step i is given
\* the result of step i-1 (the caller's buffer for the first), the call returns
\* the result of the last step, and an empty list returns the buffer unchanged.
C12_InOrder ==
    /\ Len(trace) <= Len(operations)
    /\ \A i \in DOMAIN trace :
          /\ trace[i].op = operations[i]
          /\ trace[i].arg = IF i = 1 THEN TestImage ELSE trace[i - 1].res.img
          /\ i < Len(trace) => trace[i].res.tag = "ok"
    /\ pc = "ops" => Len(trace) = idx - 1
    /\ (pc = "ops" /\ trace # <<>>) => rc_img = trace[Len(trace)].res.img
    /\ trace = <<>> => rc_img = TestImage
    /\ pc = "ops_done"
       => /\ Len(trace) = Len(operations)
          /\ opsRes = Ok(IF operations = <<>> THEN TestImage
                         ELSE trace[Len(trace)].res.img)

\* Three operations applied: the blur was given the canvas of the first resize,
\* and the result is that of the last one.
C12_Witness ==
    /\ pc = "ops_done"
    /\ operations = <<Resize(100, 200), Blur(1), Resize(400, 500)>>
    /\ Len(trace) = 3
    /\ trace[2].arg.w = 100
    /\ trace[3].arg.w = 100
    /\ opsRes.img.w = 400
    /\ opsRes.img.h = 500

(***************************************************************************)
(* Further properties of the writer, under SpecWrite.                      *)
(***************************************************************************)
\* C13: in a File export the file is created or truncated before any encoding;
\* a failed creation returns an error with nothing encoded; once created the
\* file is never deleted, so it exists after the call whether the encoding
\* succeeded or failed, complete in the first case and possibly not in the other.
C13_FileCreatedFirst ==
    export = "File"
    => /\ write_buffer = <<>>
       /\ stdout = <<>>
       /\ pc \in {"write", "create"} => file \in FilesBefore
       /\ pc = "encode_file"
          => /\ file.exists
             /\ StartsWith(Encoded(export_buffer, output_format), file.content)
       /\ pc = "write_done"
          => IF writeRes.err.msg = "create"
             THEN /\ writeRes.tag = "err"
                  /\ file \in FilesBefore
             ELSE /\ file.exists
                  /\ StartsWith(Encoded(export_buffer, output_format), file.content)
                  /\ writeRes.tag = "ok"
                     => file.content = Encoded(export_buffer, output_format)

\* An encoding into the file that failed part-way: an error is returned and the
\* incomplete file is still at the path, the earlier content gone.
C13_Witness ==
    /\ export = "File"
    /\ pc = "write_done"
    /\ writeRes.tag = "err"
    /\ writeRes.err.kind = "Encode"
    /\ file.exists
    /\ output_format.family = "PNG"
    /\ Len(file.content) = MaxBody
    /\ file.content # Encoded(export_buffer, output_format)

\* The bytes the encoder has written so far, into the file or the Vec.
Sink == IF export = "File" THEN file.content ELSE write_buffer

\* The one buffer the encoder is to read: the replacement if there is one,
\* else the original.
Chosen == IF color_processing.some THEN color_processing.img ELSE image

\* What is encoded comes from the chosen buffer alone.
EncodesChosen ==
    /\ pc \in {"encode_file", "encode_mem", "stdout_write", "write_done"}
       => /\ pc = "encode_file" \/ export = "StdoutBytes" \/ writeRes.err.msg # "create"
             => StartsWith(Encoded(Chosen, output_format), Sink)
          /\ writeRes.err.msg = "color type" => EncoderRejects(Chosen, output_format)
          /\ (writeRes.tag = "ok" \/ pc = "stdout_write")
             => Sink = Encoded(Chosen, output_format)
    /\ color_processing.some
       => /\ color_processing.img # NoImage
          /\ color_processing.img.w = image.w
          /\ color_processing.img.h = image.h

\* C14: write never changes the buffer the writer was constructed with, and
\* the buffer encoded is the original when pre_process_color_type gave None and
\* the replacement when it gave Some, never a mix.
C14_OriginalUntouched == [][image' = image]_vars /\ []EncodesChosen

\* An RGBA original written as a graymap: the replacement was encoded in full,
\* and the original is still RGBA.
C14_Witness ==
    /\ pc = "write_done"
    /\ writeRes.tag = "ok"
    /\ export = "File"
    /\ output_format.subtype = "Graymap"
    /\ color_processing.some
    /\ image.color = "Rgba8"
    /\ file.content = Encoded(color_processing.img, output_format)
    /\ file.content # Encoded(image, output_format)

(***************************************************************************)
(* Canvas and ownership in the operation pipeline, under SpecOps.          *)
(***************************************************************************)
\* C15: every buffer of the pipeline, intermediate or final, has a positive
\* width and height, or the pipeline fails instead of producing it.
C15_PositiveCanvas ==
    /\ rc_img.w > 0
    /\ rc_img.h > 0
    /\ \A i \in DOMAIN trace :
          trace[i].res.tag = "ok" => (trace[i].res.img.w > 0 /\ trace[i].res.img.h > 0)
    /\ opsRes.tag = "ok" => (opsRes.img.w > 0 /\ opsRes.img.h > 0)

\* C16: the contents of a buffer with another owner are never replaced. On a
\* uniquely owned buffer no replacement fails; on a shared one a non-empty list
\* panics at the first step, before any operation is applied and with the
\* buffer unchanged, and never returns Err; an empty list returns Ok with the
\* same buffer, shared or not.
C16_SharedNeverReplaced ==
    /\ opsRes.tag # "err"
    /\ shared
       => /\ rc_img = TestImage
          /\ trace = <<>>
          /\ idx = 1
          /\ operations # <<>> => pc \in {"ops", "abort"}
          /\ pc = "abort"
             => /\ opsRes.tag = "panic"
                /\ opsRes.err.msg = "called Option::unwrap() on a None value"
    /\ ~shared
       => /\ pc = "abort" => opsRes.err.msg = "not yet implemented"
          /\ \A i \in DOMAIN trace :
                trace[i].res.tag = "ok"
                => (IF i < Len(trace) THEN trace[i + 1].arg ELSE rc_img) = trace[i].res.img
    /\ operations = <<>>
       => /\ pc \in {"ops", "ops_done"}
          /\ pc = "ops_done" => opsRes = Ok(TestImage)

\* A shared buffer and two operations: the call panicked, the buffer is as it
\* was and no operation was applied.
C16_Witness ==
    /\ shared
    /\ operations = <<Resize(200, 200), Blur(1)>>
    /\ pc = "abort"
    /\ opsRes.tag = "panic"
    /\ rc_img = TestImage
    /\ trace = <<>>

====
